---- MODULE Spec2Model ----
(***************************************************************************)
(* The five scripts of Video_Frame_Counter as one state machine.           *)
(*                                                                         *)
(*   make_counts.py            Decode-Count, process pool, lock            *)
(*   converter.py              Decode-Count, process pool, no lock         *)
(*   h264tomp4.py              Transcoder .h264 -> .mp4, pool, lock        *)
(*   mp4toh264.py              Transcoder .mp4 -> .h264, pool, lock        *)
(*   optimized_make_counts.py  Metadata-Count, sequential loop             *)
(*                                                                         *)
(* A file name is a sequence of tokens ("a", ".", "h264", "mp4", "bak"):   *)
(* "a.h264" is <<"a", ".", "h264">>.  endswith, replace, grep and the sort *)
(* work on the tokens as the code's string operations work on characters.  *)
(* A run is one execution of one script on one directory.  What the        *)
(* environment decides (directory content, pool size, whether the output   *)
(* directory is the video directory, one injected failure of the codec or  *)
(* manager) is fixed in Init; what the scheduler decides is the            *)
(* interleaving of the actions.                                            *)
(***************************************************************************)
EXTENDS Integers, Sequences, FiniteSets, Bags, TLC

\* Bounds of the model.
MaxFiles == 2
MaxFrames == 1
MaxWorkers == 2

VARIABLES
    script,          \* which script runs
    max_workers,     \* args.max_workers
    sameDir,         \* args.output_filepath designates the video directory
    cwd,             \* the working directory: "src" (the video directory) or "elsewhere"
    fault,           \* the failure injected in this run: [file, kind]
    frames,          \* initial content of the video directory: name -> frames, Absent
    meta,            \* CAP_PROP_FRAME_COUNT reported for each file
    disk,            \* video files on disk: <<dir, name>> -> frames written, Absent
    mainPc,          \* position of the main program
    file_list,       \* file_list of __main__
    futures,         \* one record per submitted task
    lock,            \* manager.Lock(): 0 free, else index of the holding task
    dataframe_list,  \* manager.list(): the shared rows
    counts_csv,      \* counts.csv: [exists, rows]
    error            \* the exception met by __main__: [where, how]

vars == <<script, max_workers, sameDir, cwd, fault, frames, meta, disk, mainPc,
          file_list, futures, lock, dataframe_list, counts_csv, error>>

inputs == <<script, max_workers, sameDir, cwd, fault, frames, meta>>

----------------------------------------------------------------------------
\* Scripts

MAKE_COUNTS == "make_counts"
CONVERTER == "converter"
H264TOMP4 == "h264tomp4"
MP4TOH264 == "mp4toh264"
OPTIMIZED == "optimized_make_counts"

Scripts == {MAKE_COUNTS, CONVERTER, H264TOMP4, MP4TOH264, OPTIMIZED}

\* Scripts whose file list comes from os.listdir and scripts that run `ls | grep`.
ListdirScripts == {MAKE_COUNTS, H264TOMP4, OPTIMIZED}
LsScripts == {CONVERTER, MP4TOH264}

\* Scripts that dispatch the tasks to a ProcessPoolExecutor.
PoolScripts == {MAKE_COUNTS, CONVERTER, H264TOMP4, MP4TOH264}

\* Scripts whose task receives manager.Lock() and appends inside `with lock`.
LockScripts == {MAKE_COUNTS, H264TOMP4, MP4TOH264}

----------------------------------------------------------------------------
\* File names

EXT_H264 == <<".", "h264">>
EXT_MP4 == <<".", "mp4">>

Universe ==
    { <<"a", ".", "h264">>,
      <<"a", ".", "mp4">>,
      <<"a", ".", "h264", ".", "mp4">>,
      <<"a", ".", "mp4", ".", "bak">> }

Absent == -1

\* Byte order of the first character of each token: '.' < 'a' < 'b' < 'h' < 'm'.
TokRank(t) ==
    CASE t = "." -> 0
      [] t = "a" -> 1
      [] t = "bak" -> 2
      [] t = "h264" -> 3
      [] t = "mp4" -> 4

\* str.endswith
EndsWith(s, suffix) ==
    /\ Len(s) >= Len(suffix)
    /\ SubSeq(s, Len(s) - Len(suffix) + 1, Len(s)) = suffix

\* str.replace(old, new): every non-overlapping occurrence, left to right.
RECURSIVE Replace(_, _, _)
Replace(s, old, new) ==
    IF Len(s) < Len(old) THEN s
    ELSE IF SubSeq(s, 1, Len(old)) = old
         THEN new \o Replace(SubSeq(s, Len(old) + 1, Len(s)), old, new)
         ELSE <<Head(s)>> \o Replace(Tail(s), old, new)

\* Python's < on str (lexicographic, a proper prefix is smaller).
RECURSIVE StrLess(_, _)
StrLess(x, y) ==
    IF Len(y) = 0 THEN FALSE
    ELSE IF Len(x) = 0 THEN TRUE
    ELSE IF Head(x) = Head(y) THEN StrLess(Tail(x), Tail(y))
    ELSE TokRank(Head(x)) < TokRank(Head(y))

\* Insertion sort of keyed items, ascending by key: an item goes after every
\* item whose key is not greater (equal keys keep their order).
RECURSIVE InsertSorted(_, _)
InsertSorted(s, x) ==
    IF s = <<>> THEN <<x>>
    ELSE IF StrLess(x.key, Head(s).key) THEN <<x>> \o s
    ELSE <<Head(s)>> \o InsertSorted(Tail(s), x)

RECURSIVE InsertionSort(_)
InsertionSort(s) ==
    IF s = <<>> THEN <<>>
    ELSE InsertSorted(InsertionSort(SubSeq(s, 1, Len(s) - 1)), s[Len(s)])

\* sorted([...]) of converter.py and mp4toh264.py
sorted(names) ==
    LET keyed == [i \in DOMAIN names |-> [key |-> names[i], val |-> names[i]]]
        done == InsertionSort(keyed)
    IN  [i \in DOMAIN done |-> done[i].val]

\* A sort_values that leaves the rows in their order of arrival.
sort_values_arrival(rows) == rows

\* dataframe.sort_values(by="filename"): ascending by the filename column
\* alone; rows of equal filename keep their order in the list.
sort_values(rows) ==
    LET keyed == [i \in DOMAIN rows |-> [key |-> rows[i].filename, val |-> rows[i]]]
        done == InsertionSort(keyed)
    IN  [i \in DOMAIN done |-> done[i].val]

\* The enumerations of a finite set.
Perms(S) ==
    { s \in [1..Cardinality(S) -> S] :
        \A i, j \in 1..Cardinality(S) : i # j => s[i] # s[j] }

Range(s) == { s[i] : i \in DOMAIN s }

----------------------------------------------------------------------------
\* Discovery

\* [file for file in os.listdir(...) if file.endswith(".h264") or file.endswith(".mp4")]
ListdirMatches(file) == EndsWith(file, EXT_H264) \/ EndsWith(file, EXT_MP4)

\* grep -E '.h264|.mp4': any character followed by h264 or by mp4, anywhere.
GrepConverter(file) == \E i \in 2..Len(file) : file[i] \in {"h264", "mp4"}

\* grep -E '.mp4$': any character followed by mp4, at the end of the line.
GrepMp4(file) == Len(file) >= 2 /\ file[Len(file)] = "mp4"

DirNames == { f \in Universe : frames[f] # Absent }

\* The names of the working directory when it is not the video directory.
ElsewhereNames == { <<"a", ".", "mp4">> }

\* The lines of `ls`, run without an argument: the names of the working
\* directory.
Ls == IF cwd = "src" THEN DirNames ELSE ElsewhereNames

Discovered ==
    CASE script \in ListdirScripts -> { f \in DirNames : ListdirMatches(f) }
      [] script = CONVERTER -> { f \in Ls : GrepConverter(f) }
      [] script = MP4TOH264 -> { f \in Ls : GrepMp4(f) }

----------------------------------------------------------------------------
\* The task: count_frames_and_write_new_file / count_frames

\* A row that keeps the name of the input file.
RowNameOriginal(file) == file

\* The name recorded in the row appended by the task.
RowName(file) ==
    CASE script = H264TOMP4 -> Replace(file, EXT_H264, EXT_MP4)
      [] script = MP4TOH264 -> Replace(file, EXT_MP4, EXT_H264)
      [] OTHER -> file

\* `if path.endswith(<source extension>)`: the task also writes a new file.
Transcodes(file) ==
    CASE script = H264TOMP4 -> EndsWith(file, EXT_H264)
      [] script = MP4TOH264 -> EndsWith(file, EXT_MP4)
      [] OTHER -> FALSE

OutDir == IF sameDir THEN "src" ELSE "out"

NoPath == <<>>

\* new_path of the task: None, or where the transcoded file is written.
NewPath(file) ==
    CASE script = H264TOMP4 /\ Transcodes(file) ->
            <<OutDir, Replace(file, EXT_H264, EXT_MP4)>>
      [] script = MP4TOH264 /\ Transcodes(file) ->
            <<"src", Replace(file, EXT_MP4, EXT_H264)>>
      [] OTHER -> NoPath

\* The names a video file can have: those of the directory and those of the
\* files the transcoders write.
Names ==
    Universe \cup { Replace(f, EXT_H264, EXT_MP4) : f \in { g \in Universe : EndsWith(g, EXT_H264) } }
             \cup { Replace(f, EXT_MP4, EXT_H264) : f \in { g \in Universe : EndsWith(g, EXT_MP4) } }

Paths == {"src", "out"} \X Names

NoFault == [file |-> <<>>, kind |-> "none"]

\* The failure of the run is that of dataframe.to_csv.
CsvFault == [file |-> <<>>, kind |-> "csv_raise"]

Faulty(file, kind) == fault.file = file /\ fault.kind = kind

\* The failures a script's calls can meet:
\*   open_fail     cv2.VideoCapture(path) does not open (isOpened() is False)
\*   read_fail     cap.read() returns ret = False at the last frame of the file
\*   loop_raise    a call inside the frame loop raises
\*   append_raise  dataframe_list.append raises
\*   writer_raise  building the cv2.VideoWriter raises
\*   writer_fail   the cv2.VideoWriter does not open (write() does nothing)
FaultKinds(s) ==
    CASE s \in {MAKE_COUNTS, CONVERTER} ->
            {"open_fail", "read_fail", "loop_raise", "append_raise"}
      [] s \in {H264TOMP4, MP4TOH264} ->
            {"open_fail", "read_fail", "loop_raise", "append_raise",
             "writer_raise", "writer_fail"}
      [] s = OPTIMIZED -> {"open_fail", "loop_raise"}

Task(file) ==
    [file |-> file, pc |-> "pending", count |-> 0, cap |-> "none",
     out |-> "none", new_path |-> NoPath, outcome |-> "none"]

\* futures = [executor.submit(task, ..., file, ...) for file in file_list]
SubmitAll(fl) == [i \in DOMAIN fl |-> Task(fl[i])]

Running == { i \in DOMAIN futures : futures[i].pc \in {"loop", "append", "locked"} }

Pending == { i \in DOMAIN futures : futures[i].pc = "pending" }

\* A pool that starts every submitted call at once.
WorkerIdleUnbounded == TRUE

\* ProcessPoolExecutor(max_workers): a worker process is idle.
WorkerIdle == Cardinality(Running) < max_workers

\* The call queue is first in, first out.
NextPending(i) == i \in Pending /\ \A j \in Pending : i <= j

\* A wait that returns at the first completed future (FIRST_COMPLETED).
FirstCompleted == \E i \in DOMAIN futures : futures[i].pc = "done"

\* concurrent.futures.wait(futures): return_when is ALL_COMPLETED.
AllCompleted == \A i \in DOMAIN futures : futures[i].pc = "done"

\* An append that replaces the list by the new row (a lost update).
ListAppendLost(lst, row) == <<row>>

\* An append that records the row twice.
ListAppendTwice(lst, row) == Append(Append(lst, row), row)

\* dataframe_list.append(row)
ListAppend(lst, row) == Append(lst, row)

Row(name, count) == [filename |-> name, framecount |-> count]

\* ret of cap.read() for a capture that has delivered `count` frames of a file
\* that holds n frames.
ReadSucceeds(file, count, n) ==
    /\ count < n
    /\ ~(Faulty(file, "read_fail") /\ count = n - 1)

\* A loop that counts the read before it tests ret.
CountAfterReadEarly(count, ret) == count + 1

\* `if not ret: break` and then `count += 1`.
CountAfterRead(count, ret) == IF ret THEN count + 1 ELSE count

\* A count that ignores the frame counter of the container.
get_frame_count_zero(file, opened) == 0

\* int(cap.get(cv2.CAP_PROP_FRAME_COUNT)): 0 for a capture that is not opened.
get_frame_count(file, opened) == IF opened THEN meta[file] ELSE 0

\* A `with lock` that does not release the lock on exit.
LockKept(l, i) == l

\* The exit of `with lock:` by task i.
LockReleased(l, i) == IF l = i THEN 0 ELSE l

NoError == [where |-> "none", how |-> "none"]

\* What becomes of an exception of __main__: the discovery of the os.listdir
\* scripts is outside the `try`, the loop and the CSV are inside it.
TopLevelExcept(where) == IF where = "discovery" THEN "propagated" ELSE "logged"

Raised(where) == [where |-> where, how |-> TopLevelExcept(where)]

\* Where __main__ is after the exception: out of the program, or at its end.
AfterError(where) == IF TopLevelExcept(where) = "propagated" THEN "raised" ELSE "done"

----------------------------------------------------------------------------
\* Initial states

Init ==
    /\ script \in Scripts
    /\ max_workers \in 1..MaxWorkers
    /\ sameDir \in (IF script = H264TOMP4 THEN BOOLEAN ELSE {TRUE})
    /\ cwd \in (IF script \in LsScripts THEN {"src", "elsewhere"} ELSE {"src"})
    /\ frames \in { fr \in [Universe -> {Absent, 0, MaxFrames}] :
                      Cardinality({ f \in Universe : fr[f] # Absent }) <= MaxFiles }
    /\ meta \in { m \in [Universe -> 0..MaxFrames] :
                    \A f \in Universe :
                        \/ m[f] = (IF frames[f] = Absent THEN 0 ELSE frames[f])
                        \/ script = OPTIMIZED /\ frames[f] # Absent }
    /\ fault \in {NoFault, CsvFault} \cup
                 [file : { f \in Universe : frames[f] # Absent },
                  kind : FaultKinds(script)]
    /\ disk = [p \in Paths |-> IF p[1] = "src" /\ p[2] \in Universe
                               THEN frames[p[2]] ELSE Absent]
    /\ mainPc = "discover"
    /\ file_list = <<>>
    /\ futures = <<>>
    /\ lock = 0
    /\ dataframe_list = <<>>
    /\ counts_csv = [exists |-> FALSE, rows |-> <<>>]
    /\ error = NoError

----------------------------------------------------------------------------
\* __main__

\* make_counts.py, h264tomp4.py, optimized_make_counts.py: os.listdir in any
\* order, the suffix filter, the exception when nothing matches, then the
\* submission of one task per file (the pool scripts) or the loop (optimized).
DiscoverListdir ==
    /\ mainPc = "discover"
    /\ script \in ListdirScripts
    /\ IF Discovered = {}
       THEN \* raise Exception("No video files have been found. ...")
            /\ mainPc' = AfterError("discovery")
            /\ error' = Raised("discovery")
            /\ UNCHANGED <<file_list, futures>>
       ELSE /\ file_list' \in Perms(Discovered)
            /\ futures' = SubmitAll(file_list')
            /\ mainPc' = IF script = OPTIMIZED THEN "loop" ELSE "wait"
            /\ UNCHANGED error
    /\ UNCHANGED <<inputs, disk, lock, dataframe_list, counts_csv>>

\* converter.py, mp4toh264.py: sorted lines of `ls | grep`, then the submission.
DiscoverLs ==
    /\ mainPc = "discover"
    /\ script \in LsScripts
    /\ \E fl \in Perms(Discovered) :
          /\ file_list' = sorted(fl)
          /\ futures' = SubmitAll(file_list')
    /\ mainPc' = "wait"
    /\ UNCHANGED <<inputs, error, disk, lock, dataframe_list, counts_csv>>

\* concurrent.futures.wait(futures) returns and the executor shuts down.
WaitFutures ==
    /\ mainPc = "wait"
    /\ AllCompleted
    /\ mainPc' = "collect"
    /\ UNCHANGED <<inputs, error, disk, file_list, futures, lock, dataframe_list, counts_csv>>

\* pd.DataFrame(list(dataframe_list)), sort_values, to_csv
WriteCsv ==
    /\ mainPc = "collect"
    /\ IF fault = CsvFault
       THEN \* except Exception as e: logging.error(...)
            /\ error' = Raised("csv")
            /\ mainPc' = AfterError("csv")
            /\ UNCHANGED counts_csv
       ELSE /\ counts_csv' = [exists |-> TRUE, rows |-> sort_values(dataframe_list)]
            /\ mainPc' = "done"
            /\ UNCHANGED error
    /\ UNCHANGED <<inputs, disk, file_list, futures, lock, dataframe_list>>

----------------------------------------------------------------------------
\* The pool's tasks

\* A worker takes the next call: lines up to the `try` (capture and writer).
TaskStart(i) ==
    /\ mainPc = "wait"
    /\ script \in PoolScripts
    /\ NextPending(i)
    /\ WorkerIdle
    /\ LET file == futures[i].file
           cap == IF disk[<<"src", file>>] # Absent /\ ~Faulty(file, "open_fail")
                  THEN "open" ELSE "unopened"
           np == NewPath(file)
       IN  IF np # NoPath /\ Faulty(file, "writer_raise")
           THEN \* the exception leaves the task: it is stored in the future
                /\ futures' = [futures EXCEPT ![i].pc = "done", ![i].cap = cap,
                                              ![i].new_path = np,
                                              ![i].outcome = "uncaught"]
                /\ UNCHANGED disk
           ELSE /\ futures' = [futures EXCEPT
                      ![i].pc = IF cap = "open" THEN "loop" ELSE "append",
                      ![i].cap = cap,
                      ![i].new_path = np,
                      ![i].out = IF np = NoPath THEN "none"
                                 ELSE IF Faulty(file, "writer_fail") THEN "unopened"
                                 ELSE "open"]
                /\ disk' = IF np # NoPath /\ ~Faulty(file, "writer_fail")
                           THEN [disk EXCEPT ![np] = 0] ELSE disk
    /\ UNCHANGED <<inputs, error, mainPc, file_list, lock, dataframe_list, counts_csv>>

\* One iteration of `while cap.isOpened()`.
TaskReadFrame(i) ==
    /\ i \in DOMAIN futures
    /\ futures[i].pc = "loop"
    /\ LET t == futures[i]
           ret == ReadSucceeds(t.file, t.count, disk[<<"src", t.file>>])
       IN  IF Faulty(t.file, "loop_raise")
           THEN \* except Exception: cap.release()
                /\ futures' = [futures EXCEPT ![i].pc = "done", ![i].cap = "released",
                                              ![i].outcome = "caught"]
                /\ UNCHANGED disk
           ELSE IF ~ret
           THEN /\ futures' = [futures EXCEPT ![i].pc = "append",
                                              ![i].count = CountAfterRead(@, ret)]
                /\ UNCHANGED disk
           ELSE /\ futures' = [futures EXCEPT ![i].count = CountAfterRead(@, ret)]
                /\ disk' = IF t.new_path # NoPath /\ t.out = "open"
                           THEN [disk EXCEPT ![t.new_path] = @ + 1] ELSE disk
    /\ UNCHANGED <<inputs, error, mainPc, file_list, lock, dataframe_list, counts_csv>>

\* `with lock:` is entered.
TaskAcquireLock(i) ==
    /\ i \in DOMAIN futures
    /\ script \in LockScripts
    /\ futures[i].pc = "append"
    /\ lock = 0
    /\ lock' = i
    /\ futures' = [futures EXCEPT ![i].pc = "locked"]
    /\ UNCHANGED <<inputs, error, disk, mainPc, file_list, dataframe_list, counts_csv>>

\* dataframe_list.append([...]), the end of `with lock`, the releases.
TaskAppend(i) ==
    /\ i \in DOMAIN futures
    /\ futures[i].pc = IF script \in LockScripts THEN "locked" ELSE "append"
    /\ LET t == futures[i]
       IN  IF Faulty(t.file, "append_raise")
           THEN \* except Exception: cap.release()
                /\ futures' = [futures EXCEPT ![i].pc = "done", ![i].cap = "released",
                                              ![i].outcome = "caught"]
                /\ UNCHANGED dataframe_list
           ELSE /\ dataframe_list' = ListAppend(dataframe_list, Row(RowName(t.file), t.count))
                /\ futures' = [futures EXCEPT
                      ![i].pc = "done",
                      ![i].cap = "released",
                      ![i].out = IF t.new_path # NoPath THEN "released" ELSE @,
                      ![i].outcome = "ok"]
    /\ lock' = LockReleased(lock, i)
    /\ UNCHANGED <<inputs, error, disk, mainPc, file_list, counts_csv>>

----------------------------------------------------------------------------
\* optimized_make_counts.py: the loop body for the next file of file_list.

OptimizedStep ==
    /\ mainPc = "loop"
    /\ IF Pending = {}
       THEN /\ mainPc' = "collect"
            /\ UNCHANGED <<futures, dataframe_list, error>>
       ELSE LET i == CHOOSE j \in Pending : NextPending(j)
                file == futures[i].file
                opened == disk[<<"src", file>>] # Absent /\ ~Faulty(file, "open_fail")
                count == get_frame_count(file, opened)
            IN  IF Faulty(file, "loop_raise")
                THEN \* the exception leaves the loop: except of __main__
                     /\ futures' = [futures EXCEPT ![i].pc = "done",
                                       ![i].cap = IF opened THEN "open" ELSE "unopened",
                                       ![i].outcome = "uncaught"]
                     /\ mainPc' = AfterError("loop")
                     /\ error' = Raised("loop")
                     /\ UNCHANGED dataframe_list
                ELSE /\ dataframe_list' = ListAppend(dataframe_list, Row(file, count))
                     /\ futures' = [futures EXCEPT ![i].pc = "done",
                                       ![i].cap = "released", ![i].count = count,
                                       ![i].outcome = "ok"]
                     /\ UNCHANGED <<mainPc, error>>
    /\ UNCHANGED <<inputs, disk, file_list, lock, counts_csv>>

----------------------------------------------------------------------------

Next ==
    \/ DiscoverListdir
    \/ DiscoverLs
    \/ WaitFutures
    \/ WriteCsv
    \/ OptimizedStep
    \/ \E i \in DOMAIN futures :
          \/ TaskStart(i)
          \/ TaskReadFrame(i)
          \/ TaskAcquireLock(i)
          \/ TaskAppend(i)

Spec == Init /\ [][Next]_vars

\* The steps of the call of position i in the pool.
TaskStep(i) == TaskStart(i) \/ TaskReadFrame(i) \/ TaskAcquireLock(i) \/ TaskAppend(i)

\* The steps of __main__.
MainStep == DiscoverListdir \/ DiscoverLs \/ WaitFutures \/ WriteCsv \/ OptimizedStep

\* The main process and every worker process are scheduled fairly by the OS.
FairSpec == Spec /\ WF_vars(MainStep) /\ \A i \in 1..MaxFiles : WF_vars(TaskStep(i))

----------------------------------------------------------------------------
\* Vocabulary of the properties

\* The bag of the elements of a sequence.
SeqBag(s) == [x \in Range(s) |-> Cardinality({ i \in DOMAIN s : s[i] = x })]

Filenames(rows) == [i \in DOMAIN rows |-> rows[i].filename]

Finished == mainPc = "done"

EveryTaskFinished == \A i \in DOMAIN futures : futures[i].pc = "done"

NoTaskFailed == \A i \in DOMAIN futures : futures[i].outcome = "ok"

StartedNotFinished == { i \in DOMAIN futures : futures[i].pc \notin {"pending", "done"} }

HasRow(rows, name) == \E k \in DOMAIN rows : rows[k].filename = name

Ascending(rows) ==
    \A i, j \in DOMAIN rows : i < j => ~StrLess(rows[j].filename, rows[i].filename)

\* The run of the same input with the tasks executed one after the other in
\* the order of file_list: what a pool of one worker computes.
SeqTask(file, d) ==
    LET opened == d[<<"src", file>>] # Absent /\ ~Faulty(file, "open_fail")
        np == NewPath(file)
        writes == np # NoPath /\ ~Faulty(file, "writer_fail")
        d1 == IF writes THEN [d EXCEPT ![np] = 0] ELSE d
        n == d1[<<"src", file>>]
        count == IF ~opened THEN 0
                 ELSE IF Faulty(file, "read_fail") /\ n >= 1 THEN n - 1 ELSE n
        d2 == IF writes THEN [d1 EXCEPT ![np] = count] ELSE d1
    IN  IF np # NoPath /\ Faulty(file, "writer_raise") THEN [rows |-> <<>>, disk |-> d]
        ELSE IF opened /\ Faulty(file, "loop_raise") THEN [rows |-> <<>>, disk |-> d1]
        ELSE IF Faulty(file, "append_raise") THEN [rows |-> <<>>, disk |-> d2]
        ELSE [rows |-> <<Row(RowName(file), count)>>, disk |-> d2]

RECURSIVE SeqRows(_, _)
SeqRows(fl, d) ==
    IF fl = <<>> THEN <<>>
    ELSE LET r == SeqTask(Head(fl), d)
         IN  r.rows \o SeqRows(Tail(fl), r.disk)

InitialDisk ==
    [p \in Paths |-> IF p[1] = "src" /\ p[2] \in Universe THEN frames[p[2]] ELSE Absent]

SequentialManifest == sort_values(SeqRows(file_list, InitialDisk))

----------------------------------------------------------------------------
\* C1: when the run has ended, the manifest was written and no task failed,
\* the manifest holds exactly one row per discovered file: the bag of its
\* filenames is the bag of the row names of the files of file_list (the
\* file names themselves in the scripts that do not transcode).
C1_OneRowPerFile ==
    (Finished /\ counts_csv.exists /\ NoTaskFailed) =>
        /\ Len(counts_csv.rows) = Cardinality(Discovered)
        /\ SeqBag(Filenames(counts_csv.rows)) =
              SeqBag([i \in DOMAIN file_list |-> RowName(file_list[i])])
        /\ Range(file_list) = Discovered

C1_Witness ==
    /\ Finished /\ counts_csv.exists /\ NoTaskFailed
    /\ script = MAKE_COUNTS
    /\ max_workers = 2
    /\ Len(file_list) = 2
    /\ Filenames(dataframe_list) # Filenames(counts_csv.rows)

\* C2: the shared list is read (the main program is at the conversion, or
\* counts.csv exists) only when every submitted task is done: none is
\* pending and none is running.
C2_ReadAfterBarrier ==
    (mainPc = "collect" \/ counts_csv.exists) => EveryTaskFinished

C2_Witness ==
    /\ mainPc = "collect"
    /\ script \in PoolScripts
    /\ Len(futures) = 2
    /\ \E i \in DOMAIN futures : futures[i].outcome = "caught"
    /\ \E i \in DOMAIN futures : futures[i].outcome = "ok"

\* C3 (as claimed): in every script that dispatches workers, a step that
\* appends to the shared list is taken by a task that holds the lock.
C3_AppendUnderLock ==
    [][(script \in PoolScripts /\ dataframe_list' # dataframe_list) =>
          /\ lock \in DOMAIN futures
          /\ futures[lock].pc = "locked"
          /\ futures'[lock].pc = "done"]_vars

\* C4 (as claimed): the manifest written is the same for every pool size and
\* every interleaving: it is the manifest of the run with one worker.
C4_ManifestIndependentOfPool ==
    (Finished /\ counts_csv.exists /\ script \in PoolScripts) =>
        counts_csv.rows = SequentialManifest

\* C5: the tasks started and not finished are never more than max_workers,
\* and once the tasks are submitted there is exactly one per discovered file.
C5_PoolBound ==
    /\ Cardinality(StartedNotFinished) <= max_workers
    /\ mainPc \notin {"discover", "raised"} =>
          /\ Len(futures) = Cardinality(Discovered)
          /\ { futures[i].file : i \in DOMAIN futures } = Discovered

C5_Witness ==
    /\ Cardinality(StartedNotFinished) = max_workers
    /\ \E i \in DOMAIN futures : futures[i].pc = "pending"

\* C6 (as claimed): a file the codec cannot open gets no row in the shared
\* list.
C6_NoRowOnOpenFailure ==
    \A i \in DOMAIN futures :
        Faulty(futures[i].file, "open_fail") =>
            ~HasRow(dataframe_list, RowName(futures[i].file))

\* C7: the rows of counts.csv are in ascending order of filename.
C7_ManifestSorted == counts_csv.exists => Ascending(counts_csv.rows)

C7_Witness ==
    /\ counts_csv.exists
    /\ Len(counts_csv.rows) >= 2
    /\ ~Ascending(dataframe_list)

\* C8 (as claimed): in the transcoders a finished task holds neither its
\* capture nor its writer.
C8_HandlesReleased ==
    \A i \in DOMAIN futures :
        (script \in {H264TOMP4, MP4TOH264} /\ futures[i].pc = "done") =>
            futures[i].cap # "open" /\ futures[i].out # "open"

\* C9 (as claimed): with no matching file nothing is submitted and
\* counts.csv is never written.
C9_AbortOnNoFiles ==
    Discovered = {} => (futures = <<>> /\ ~counts_csv.exists)

\* C10 (as claimed): when the run has ended and writing counts.csv did not
\* fail, every discovered file other than the one whose processing raised has
\* its row in counts.csv.
C10_FailureIsolated ==
    (Finished /\ fault # CsvFault) =>
        \A i \in DOMAIN futures :
            futures[i].file # fault.file =>
                counts_csv.exists /\ HasRow(counts_csv.rows, RowName(futures[i].file))

----------------------------------------------------------------------------
\* The transcoders: names and files

SourceExt == IF script = H264TOMP4 THEN EXT_H264 ELSE EXT_MP4

TargetExt == IF script = H264TOMP4 THEN EXT_MP4 ELSE EXT_H264

\* The name of a file with its last extension exchanged for the target one.
TargetName(file) == SubSeq(file, 1, Len(file) - Len(SourceExt)) \o TargetExt

DistinctFilenames(rows) ==
    \A i, j \in DOMAIN rows : i # j => rows[i].filename # rows[j].filename

\* C11 (as claimed): the filenames of the rows of counts.csv are pairwise
\* distinct: no manifest is written with two rows of the same filename.
C11_UniqueOutputNames == counts_csv.exists => DistinctFilenames(counts_csv.rows)

\* C12 (as claimed): while a task has a writer open on a file, that file is
\* neither the input nor the output of another task of the run.
C12_NoSharedFile ==
    \A i, j \in DOMAIN futures :
        (i # j /\ futures[i].out = "open") =>
            /\ futures[i].new_path # <<"src", futures[j].file>>
            /\ futures[i].new_path # NewPath(futures[j].file)

\* C13: a task that has transcoded its file (the writer was opened, the task
\* ended normally) has written as many frames to the new file as it has
\* counted, and its row has that count under the name with the target
\* extension.
C13_TranscodedFramesEqualCount ==
    \A i \in DOMAIN futures :
        LET t == futures[i] IN
        (/\ script \in {H264TOMP4, MP4TOH264}
         /\ Transcodes(t.file)
         /\ ~Faulty(t.file, "writer_fail")
         /\ t.pc = "done" /\ t.outcome = "ok") =>
            /\ disk[t.new_path] = t.count
            /\ \E k \in DOMAIN dataframe_list :
                  /\ dataframe_list[k] = Row(TargetName(t.file), t.count)
                  /\ EndsWith(dataframe_list[k].filename, TargetExt)
                  /\ ~EndsWith(dataframe_list[k].filename, SourceExt)

\* Both transcoders have each written a one-frame file and recorded it.
C13_Witness ==
    /\ script \in {H264TOMP4, MP4TOH264}
    /\ \E i \in DOMAIN futures :
          /\ Transcodes(futures[i].file)
          /\ futures[i].pc = "done" /\ futures[i].outcome = "ok"
          /\ futures[i].count = MaxFrames
          /\ disk[futures[i].new_path] = MaxFrames
          /\ HasRow(dataframe_list, TargetName(futures[i].file))

----------------------------------------------------------------------------
\* Decode-Count

\* Whether the file of a task is also written by a task of the run.
WrittenByTheRun(file) ==
    \E j \in DOMAIN futures : NewPath(futures[j].file) = <<"src", file>>

\* The successful reads that precede the first unsuccessful one.
SuccessfulReads(file) ==
    IF frames[file] = Absent \/ Faulty(file, "open_fail") THEN 0
    ELSE IF Faulty(file, "read_fail") /\ frames[file] > 0 THEN frames[file] - 1
    ELSE frames[file]

\* C14: the count a task of a decoding script holds once its loop has ended,
\* and the count of its row, is the number of successful reads before the
\* first unsuccessful one (the file not being rewritten during the run).
C14_DecodeCount ==
    \A i \in DOMAIN futures :
        LET t == futures[i] IN
        (script \in PoolScripts /\ ~WrittenByTheRun(t.file)) =>
            /\ t.pc \in {"append", "locked"} => t.count = SuccessfulReads(t.file)
            /\ (t.pc = "done" /\ t.outcome = "ok") =>
                  /\ t.count = SuccessfulReads(t.file)
                  /\ \E k \in DOMAIN dataframe_list :
                        dataframe_list[k] = Row(RowName(t.file), SuccessfulReads(t.file))

\* One file was read to its end, the other has a last frame that cannot be
\* read: both rows are recorded.
C14_Witness ==
    /\ script \in {MAKE_COUNTS, CONVERTER}
    /\ \E i, j \in DOMAIN futures :
          /\ futures[i].pc = "done" /\ futures[i].outcome = "ok"
          /\ futures[j].pc = "done" /\ futures[j].outcome = "ok"
          /\ Faulty(futures[i].file, "read_fail")
          /\ frames[futures[i].file] = MaxFrames
          /\ futures[i].count = MaxFrames - 1
          /\ futures[j].count = MaxFrames
          /\ Len(dataframe_list) = 2

----------------------------------------------------------------------------
\* The exceptions of __main__

\* C15 (as claimed): an exception met by __main__, at discovery or at the
\* writing of counts.csv, is logged and does not leave the program.
C15_TopLevelFailureReported ==
    error.where # "none" => (error.how = "logged" /\ mainPc # "raised")

\* C16 (as claimed): a transcoding task whose writer could not be opened
\* still ends with the count of its file and with its row recorded.
C16_WriterFailureKeepsCount ==
    \A i \in DOMAIN futures :
        LET t == futures[i] IN
        (/\ script \in {H264TOMP4, MP4TOH264}
         /\ Transcodes(t.file)
         /\ (Faulty(t.file, "writer_fail") \/ Faulty(t.file, "writer_raise"))
         /\ t.pc = "done") =>
            /\ t.count = SuccessfulReads(t.file)
            /\ HasRow(dataframe_list, RowName(t.file))

----------------------------------------------------------------------------
\* Termination

\* The failures under which a task still ends with a row.
Benign == {"none", "open_fail", "read_fail", "writer_fail"}

\* C17: under fair scheduling, in a pool script whose tasks do not raise and
\* whose counts.csv can be written, for every pool size, every task ends, the
\* list holds one row per discovered file and counts.csv is written.
C17_EventuallyWritten ==
    (script \in PoolScripts /\ fault.kind \in Benign /\ Discovered # {}) =>
        <>(/\ Len(futures) = Cardinality(Discovered)
           /\ EveryTaskFinished
           /\ Len(dataframe_list) = Cardinality(Discovered)
           /\ counts_csv.exists
           /\ Len(counts_csv.rows) = Cardinality(Discovered))

\* Two files went through a pool of one worker and are in counts.csv.
C17_Witness ==
    /\ script \in LockScripts
    /\ max_workers = 1
    /\ Len(futures) = 2
    /\ EveryTaskFinished
    /\ counts_csv.exists
    /\ Len(counts_csv.rows) = 2

----------------------------------------------------------------------------
\* Metadata-Count and Decode-Count

\* The manifest of decoded counts of the directory: one row per discovered
\* file, with the frames the file holds, by ascending filename.
DecodeManifest ==
    CHOOSE rows \in { [i \in DOMAIN p |-> Row(p[i], frames[p[i]])] : p \in Perms(Discovered) } :
        Ascending(rows)

WellFormedMp4s ==
    \A f \in Discovered :
        /\ EndsWith(f, EXT_MP4)
        /\ script = OPTIMIZED => meta[f] = frames[f]

\* C18: over a directory of .mp4 files whose frame counter is the number of
\* their frames, make_counts and optimized_make_counts write the same
\* counts.csv: the rows of the decoded counts.
C18_MetadataAgreesWithDecode ==
    (/\ script \in {MAKE_COUNTS, OPTIMIZED}
     /\ fault = NoFault
     /\ WellFormedMp4s
     /\ counts_csv.exists) =>
        counts_csv.rows = DecodeManifest

\* optimized_make_counts has written the counts of two one-frame .mp4 files.
C18_Witness ==
    /\ script = OPTIMIZED
    /\ fault = NoFault
    /\ WellFormedMp4s
    /\ counts_csv.exists
    /\ Len(counts_csv.rows) = 2
    /\ \A k \in DOMAIN counts_csv.rows : counts_csv.rows[k].framecount = MaxFrames

----------------------------------------------------------------------------
\* The name of the row

\* C19 (as claimed): the row of a file has the transcoded name when the task
\* wrote a transcoded file, and the name of the file itself when it did not.
C19_RowNameFollowsTranscoding ==
    \A i \in DOMAIN futures :
        LET t == futures[i]
            name == IF Transcodes(t.file) THEN TargetName(t.file) ELSE t.file
        IN  (script \in {H264TOMP4, MP4TOH264} /\ t.pc = "done" /\ t.outcome = "ok") =>
                /\ RowName(t.file) = name
                /\ HasRow(dataframe_list, name)

----------------------------------------------------------------------------
\* The list of rows

\* The tasks that have appended their row.
Appended == { i \in DOMAIN futures : futures[i].pc = "done" /\ futures[i].outcome = "ok" }

\* C20: the list of rows is empty at the start; every step leaves it as it is
\* or appends to it the one row of a task whose frame loop has ended and
\* which ends with that step; it holds one row per task that has appended.
C20_AppendOnly ==
    /\ dataframe_list = <<>>
    /\ [][\/ dataframe_list' = dataframe_list
          \/ \E i \in DOMAIN futures :
                /\ futures[i].pc = IF script \in LockScripts THEN "locked"
                                   ELSE IF script = OPTIMIZED THEN "pending"
                                   ELSE "append"
                /\ i \notin Appended
                /\ futures'[i].pc = "done"
                /\ dataframe_list' =
                      Append(dataframe_list, Row(RowName(futures[i].file), futures'[i].count))
         ]_vars
    /\ [](Len(dataframe_list) = Cardinality(Appended))

\* Two tasks of a pool have each appended their row.
C20_Witness ==
    /\ script \in PoolScripts
    /\ mainPc = "wait"
    /\ Cardinality(Appended) = 2
    /\ Len(dataframe_list) = 2
    /\ dataframe_list[1] # dataframe_list[2]

----------------------------------------------------------------------------
\* The end of a counting task

\* The rows recorded under a name.
RowsOf(rows, name) == { k \in DOMAIN rows : rows[k].filename = name }

\* C21 (as claimed): in make_counts and converter, a task that has ended has
\* released its capture, whether it ended normally or by an exception of the
\* loop or of the append; a task that ended normally has exactly one row, and
\* every row is appended by a task that holds the lock.
C21_ReleasedAndOneRowUnderLock ==
    /\ [](script \in {MAKE_COUNTS, CONVERTER} =>
            \A i \in DOMAIN futures :
                futures[i].pc = "done" =>
                    /\ futures[i].cap = "released"
                    /\ futures[i].outcome = "ok" =>
                          Cardinality(RowsOf(dataframe_list, futures[i].file)) = 1)
    /\ [][(script \in {MAKE_COUNTS, CONVERTER} /\ dataframe_list' # dataframe_list) =>
              \E i \in DOMAIN futures :
                  /\ lock = i
                  /\ futures[i].pc = "locked"
                  /\ futures'[i].pc = "done"]_vars

----------------------------------------------------------------------------
\* Discovery

\* The names of the video directory that end in .h264 or in .mp4.
SuffixMatches == { f \in DirNames : EndsWith(f, EXT_H264) \/ EndsWith(f, EXT_MP4) }

\* C22 (as claimed): in every script, the files dispatched are the names of
\* the given video directory that end in .h264 or .mp4, and no others.
C22_DispatchedExactSuffix ==
    mainPc \in {"wait", "loop", "collect", "done"} => Range(file_list) = SuffixMatches

----------------------------------------------------------------------------
\* The lock

\* C23: in the scripts that take the lock, the lock is only ever held by a
\* task that is inside `with lock`: no task that has ended holds it, be it
\* after an append or after an exception of the append.
C23_LockNotHeldAfterEnd ==
    script \in LockScripts =>
        /\ lock # 0 => (lock \in DOMAIN futures /\ futures[lock].pc = "locked")
        /\ \A i \in DOMAIN futures : futures[i].pc = "done" => lock # i

\* With one worker, the append of the first task raised inside `with lock`,
\* and the second task has since taken the lock and appended its row.
C23_Witness ==
    /\ script \in LockScripts
    /\ max_workers = 1
    /\ Len(futures) = 2
    /\ Faulty(futures[1].file, "append_raise")
    /\ futures[1].pc = "done" /\ futures[1].outcome = "caught"
    /\ futures[2].pc = "done" /\ futures[2].outcome = "ok"
    /\ lock = 0
    /\ dataframe_list = <<Row(RowName(futures[2].file), futures[2].count)>>

====
